---- MODULE Spec2Model ----
(***************************************************************************)
(* A model of wayplan (src/src/main.rs): the duration fetcher, the minute  *)
(* formatter, the leg model, the profile loader and the report loop.       *)
(*                                                                         *)
(* Text is a sequence of tokens whose concatenation is the printed text:   *)
(* the output of the number formatter is one character per token, the      *)
(* literal pieces of a format string and the profile's strings are one     *)
(* token each.  An i64 is a mathematical integer; every value of the model *)
(* is far inside the i64 range, so no operation of the model overflows.    *)
(***************************************************************************)
EXTENDS Integers, Sequences, FiniteSets, TLC

VARIABLES
    file,       \* the profile file as load_profile finds it
    profile,    \* main's `profile`: the loaded Vec<Leg>
    pc,         \* main's position
    x,          \* main's loop index (0-based, as in the source)
    d1,         \* value of the first leg.duration() of the current println!
    d2,         \* value of the second leg.duration() of the current println!
    out,        \* standard output: the sequence of lines printed so far
    requests,   \* every HTTP request issued so far, in order
    returns,    \* what every completed get_duration / Leg::duration call gave
    seconds,    \* argument of the get_minute_string call under test
    result,     \* its return value
    fmtpc,      \* position of the formatter call under test
    response,   \* the HTTP response given to the get_duration call under test
    duration,   \* its return value
    fetchpc     \* position of the get_duration call under test

mainvars  == <<file, profile, pc, x, d1, d2, out, requests, returns>>
fmtvars   == <<seconds, result, fmtpc>>
fetchvars == <<response, duration, fetchpc>>
vars      == <<file, profile, pc, x, d1, d2, out, requests, returns,
               seconds, result, fmtpc, response, duration, fetchpc>>

----------------------------------------------------------------------------
(* Bounds of the model *)

MaxLegs == 2

MaxRoutes == 2

MaxRouteLegs == 2

MaxSeconds == 130

----------------------------------------------------------------------------
(* i64 arithmetic of Rust: / truncates toward zero, % takes the sign of    *)
(* the dividend.                                                           *)

i64_div(a, b) == IF a >= 0 THEN a \div b ELSE -((-a) \div b)

i64_rem(a, b) == a - b * i64_div(a, b)

i64_abs(a) == IF a < 0 THEN -a ELSE a

----------------------------------------------------------------------------
(* format!: "{}" and "{:0w}" of an i64 *)

DigitChars == <<"0", "1", "2", "3", "4", "5", "6", "7", "8", "9">>

RECURSIVE ToDigits(_)
ToDigits(n) ==
    IF n < 10 THEN <<DigitChars[n + 1]>>
    ELSE ToDigits(n \div 10) \o <<DigitChars[(n % 10) + 1]>>

RECURSIVE Zeros(_)
Zeros(n) == IF n <= 0 THEN <<>> ELSE <<"0">> \o Zeros(n - 1)

\* "{}": an optional minus sign, then the decimal digits
fmt_display(n) == IF n < 0 THEN <<"-">> \o ToDigits(-n) ELSE ToDigits(n)

\* "{:0w}": sign-aware zero padding to a minimum width of w characters
fmt_display_noPad(n, w) == fmt_display(n)

fmt_zero_padded(n, w) ==
    LET sign   == IF n < 0 THEN <<"-">> ELSE <<>>
        digits == ToDigits(i64_abs(n))
    IN  sign \o Zeros(w - Len(sign) - Len(digits)) \o digits

\* get_minute_string with the branch taken on the sign of the argument
get_minute_string_signOfInput(secs) ==
    LET minutes == i64_div(secs, 60)
        rem     == i64_rem(secs, 60)
    IN  IF ~(secs < 0)
        THEN fmt_display(minutes) \o <<":">> \o fmt_zero_padded(rem, 2)
        ELSE <<"-">> \o fmt_display(minutes) \o <<":">> \o fmt_display(i64_abs(rem))

get_minute_string(secs) ==
    LET minutes == i64_div(secs, 60)
        rem     == i64_rem(secs, 60)
    IN  IF ~(rem < 0)
        THEN fmt_display(minutes) \o <<":">> \o fmt_zero_padded(rem, 2)
        ELSE <<"-">> \o fmt_display(minutes) \o <<":">> \o fmt_display(i64_abs(rem))

----------------------------------------------------------------------------
(* The directions service's responses and get_duration *)

\* duration_in_traffic.value of a route leg, in seconds
DurValues == {95}

\* A leg of a route: with or without the duration_in_traffic.value field
JsonLegs ==
    {[hasDuration |-> FALSE, value |-> 0]}
        \cup {[hasDuration |-> TRUE, value |-> v] : v \in DurValues}

SeqsUpTo(S, n) == UNION {[1..k -> S] : k \in 0..n}

\* A route: an object with or without a "legs" array
JsonRoutes ==
    {[hasLegs |-> FALSE, legs |-> <<>>]}
        \cup {[hasLegs |-> TRUE, legs |-> l] : l \in SeqsUpTo(JsonLegs, MaxRouteLegs)}

\* What RestClient::get_with_params gives: a transport error, a body that
\* is not JSON, JSON without "routes", or JSON with a "routes" array
Responses ==
    {[kind |-> k, routes |-> <<>>] : k \in {"neterr", "badjson", "noroutes"}}
        \cup {[kind |-> "json", routes |-> r] : r \in SeqsUpTo(JsonRoutes, MaxRoutes)}

\* The outcome of a call that may panic: the value returned, or the
\* unwrap() or index that panicked
Panic(why) == [ok |-> FALSE, value |-> 0, why |-> why]

Returned(v) == [ok |-> TRUE, value |-> v, why |-> ""]

\* the for loop of get_duration: result += value, leg by leg; an unwrap()
\* of a missing field panics
RECURSIVE accumulate(_, _)
accumulate(leg_array, acc) ==
    IF leg_array = <<>> THEN Returned(acc)
    ELSE IF ~Head(leg_array).hasDuration THEN Panic("duration_in_traffic")
    ELSE accumulate(Tail(leg_array), acc + Head(leg_array).value)

RECURSIVE accumulate_routes(_, _)
accumulate_routes(routes, acc) ==
    IF routes = <<>> THEN Returned(acc)
    ELSE IF ~Head(routes).hasLegs THEN Panic("legs")
    ELSE LET r == accumulate(Head(routes).legs, acc)
         IN  IF r.ok THEN accumulate_routes(Tail(routes), r.value) ELSE r

\* get_duration summing the legs of every route of the response
get_duration_allRoutes(resp) ==
    IF resp.kind = "neterr" THEN Panic("transport")
    ELSE IF resp.kind = "badjson" THEN Panic("json")
    ELSE IF resp.kind = "noroutes" THEN Panic("routes")
    ELSE IF Len(resp.routes) = 0 THEN Panic("index")
    ELSE accumulate_routes(resp.routes, 0)

get_duration(resp) ==
    IF resp.kind = "neterr" THEN Panic("transport")   \* get_with_params(..).unwrap()
    ELSE IF resp.kind = "badjson" THEN Panic("json")  \* Json::from_str(..).unwrap()
    ELSE IF resp.kind = "noroutes" THEN Panic("routes") \* search("routes").unwrap()
    ELSE IF Len(resp.routes) = 0 THEN Panic("index")  \* [0] of an empty array
    ELSE LET first_route == resp.routes[1]
         IN  IF ~first_route.hasLegs THEN Panic("legs") \* get("legs").unwrap()
             ELSE accumulate(first_route.legs, 0)

\* Every outcome a call of get_duration can have
Outcomes == {get_duration(r) : r \in Responses}

----------------------------------------------------------------------------
(* Waypoint, Leg and the profile file *)

Waypoint(description, internal) ==
    [description |-> description, internal |-> internal]

Home == Waypoint("Home", "Home Street 1")

Office == Waypoint("Office", "Office Road 2")

\* The legs a profile of the model is made of
ProfileLegs ==
    { [description |-> "To work", origin |-> Home, destination |-> Office,
       via |-> Waypoint("Bridge", "Bridge|Tunnel"),
       usual_internal_duration |-> 100, usual_timetable_duration |-> 120],
      [description |-> "To home", origin |-> Office, destination |-> Home,
       via |-> Waypoint("", ""),
       usual_internal_duration |-> 90, usual_timetable_duration |-> 300] }

Profiles == SeqsUpTo(ProfileLegs, MaxLegs)

\* The file load_profile is given: missing, not a JSON array of Leg, or a
\* JSON array of Leg
Files ==
    {[kind |-> k, legs |-> <<>>] : k \in {"missing", "malformed"}}
        \cup {[kind |-> "ok", legs |-> p] : p \in Profiles}

\* load_profile: File::open(..).unwrap(), read_to_string(..).unwrap(),
\* json::decode(..).unwrap()
load_profile(f) == IF f.kind = "ok" THEN [ok |-> TRUE, value |-> f.legs]
                   ELSE [ok |-> FALSE, value |-> <<>>]

\* The query of get_duration
Request(origin, destination, waypoints) ==
    [origin |-> origin, destination |-> destination, waypoints |-> waypoints,
     departure_time |-> "now", traffic_model |-> "best_guess",
     mode |-> "driving", key |-> ""]

Leg_request(leg) ==
    Request(leg.origin.internal, leg.destination.internal, leg.via.internal)

\* Leg::duration with the two baselines exchanged
Leg_duration_swapped(leg, raw) ==
    IF raw.ok
    THEN Returned(raw.value + (leg.usual_internal_duration - leg.usual_timetable_duration))
    ELSE raw

\* Leg::duration, given what its get_duration call came to
Leg_duration(leg, raw) ==
    IF raw.ok
    THEN Returned(raw.value + (leg.usual_timetable_duration - leg.usual_internal_duration))
    ELSE raw

\* A panic unwinds through main: the run is over; otherwise main goes on
Unwind_goOn(ret, next) == next

Unwind(ret, next) == IF ret.ok THEN next ELSE "aborted"

\* println!( "{}: {} -> {}", .. )
HeaderLine_swapped(leg) ==
    <<leg.description, ": ", leg.destination.description, " -> ",
      leg.origin.description>>

HeaderLine(leg) ==
    <<leg.description, ": ", leg.origin.description, " -> ",
      leg.destination.description>>

\* println!( "    Predicted duration: {} min (deviation {} min)", .. )
DurationLine(predicted, deviation) ==
    <<"    Predicted duration: ">> \o predicted \o <<" min (deviation ">>
        \o deviation \o <<" min)">>

\* println!( "" )
BlankLine == <<>>

\* for x in 0..profile.len(): the position after the range gave x or ended
LoopAt(i, len) == IF i < len THEN "header" ELSE "done"

----------------------------------------------------------------------------
(* main *)

\* the loop taking the legs from the end of the profile
leg_reversed == profile[Len(profile) - x]

\* let ref leg = profile[x];
leg == profile[x + 1]

Idle ==
    /\ file = [kind |-> "missing", legs |-> <<>>]
    /\ profile = <<>>
    /\ pc = "idle"
    /\ x = 0
    /\ d1 = 0
    /\ d2 = 0
    /\ out = <<>>
    /\ requests = <<>>
    /\ returns = <<>>

NotCalled == [ok |-> FALSE, value |-> 0, why |-> "not called"]

FmtIdle == seconds = 0 /\ result = <<>> /\ fmtpc = "idle"

FetchIdle == response = [kind |-> "neterr", routes |-> <<>>] /\ duration = NotCalled
             /\ fetchpc = "idle"

Init ==
    /\ file \in Files
    /\ profile = <<>>
    /\ pc = "load"
    /\ x = 0
    /\ d1 = 0
    /\ d2 = 0
    /\ out = <<>>
    /\ requests = <<>>
    /\ returns = <<>>
    /\ FmtIdle
    /\ FetchIdle

\* let profile = get_profile();
LoadProfile ==
    /\ pc = "load"
    /\ LET loaded == load_profile(file)
       IN  /\ profile' = loaded.value
           /\ pc' = IF loaded.ok THEN LoopAt(0, Len(loaded.value)) ELSE "aborted"
    /\ UNCHANGED <<file, x, d1, d2, out, requests, returns,
                   fmtvars, fetchvars>>

\* the first println! of the loop body
PrintHeader ==
    /\ pc = "header"
    /\ out' = Append(out, HeaderLine(leg))
    /\ pc' = "fetch1"
    /\ UNCHANGED <<file, profile, x, d1, d2, requests, returns,
                   fmtvars, fetchvars>>

\* the first leg.duration(): get_duration sends its request
IssueFetch1 ==
    /\ pc = "fetch1"
    /\ requests' = Append(requests, [x |-> x, query |-> Leg_request(leg)])
    /\ pc' = "wait1"
    /\ UNCHANGED <<file, profile, x, d1, d2, out, returns,
                   fmtvars, fetchvars>>

\* the first duration is printed as soon as it is known
CompleteFetch1_printEarly ==
    /\ pc = "wait1"
    /\ \E raw \in Outcomes :
         LET ret == Leg_duration(leg, raw)
         IN  /\ returns' = Append(returns, [x |-> x, raw |-> raw, ret |-> ret])
             /\ d1' = ret.value
             /\ pc' = Unwind(ret, "fetch2")
             /\ out' = IF ret.ok
                       THEN Append(out, <<"    Predicted duration: ">>
                                            \o get_minute_string(ret.value))
                       ELSE out
    /\ UNCHANGED <<file, profile, x, d2, requests,
                   fmtvars, fetchvars>>

\* the response arrives; get_duration and Leg::duration return or panic
CompleteFetch1 ==
    /\ pc = "wait1"
    /\ \E raw \in Outcomes :
         LET ret == Leg_duration(leg, raw)
         IN  /\ returns' = Append(returns, [x |-> x, raw |-> raw, ret |-> ret])
             /\ d1' = ret.value
             /\ pc' = Unwind(ret, "fetch2")
    /\ UNCHANGED <<file, profile, x, d2, out, requests,
                   fmtvars, fetchvars>>

\* the second duration is taken from the first: no second request
IssueFetch2_reuse ==
    /\ pc = "fetch2"
    /\ d2' = d1
    /\ pc' = "line"
    /\ UNCHANGED <<file, profile, x, d1, out, requests, returns,
                   fmtvars, fetchvars>>

\* the second leg.duration(): get_duration sends its request
IssueFetch2 ==
    /\ pc = "fetch2"
    /\ requests' = Append(requests, [x |-> x, query |-> Leg_request(leg)])
    /\ pc' = "wait2"
    /\ UNCHANGED <<file, profile, x, d1, d2, out, returns,
                   fmtvars, fetchvars>>

CompleteFetch2 ==
    /\ pc = "wait2"
    /\ \E raw \in Outcomes :
         LET ret == Leg_duration(leg, raw)
         IN  /\ returns' = Append(returns, [x |-> x, raw |-> raw, ret |-> ret])
             /\ d2' = ret.value
             /\ pc' = Unwind(ret, "line")
    /\ UNCHANGED <<file, profile, x, d1, out, requests,
                   fmtvars, fetchvars>>

\* the second println!: both arguments are formatted, the line is written
PrintDuration ==
    /\ pc = "line"
    /\ out' = Append(out, DurationLine(get_minute_string(d1),
                              get_minute_string(d2 - leg.usual_timetable_duration)))
    /\ d1' = 0
    /\ d2' = 0
    /\ pc' = "blank"
    /\ UNCHANGED <<file, profile, x, requests, returns,
                   fmtvars, fetchvars>>

\* the third println!, and the next turn of the loop
PrintBlank ==
    /\ pc = "blank"
    /\ out' = Append(out, BlankLine)
    /\ x' = x + 1
    /\ pc' = LoopAt(x + 1, Len(profile))
    /\ UNCHANGED <<file, profile, d1, d2, requests, returns,
                   fmtvars, fetchvars>>

Next ==
    \/ LoadProfile
    \/ PrintHeader
    \/ IssueFetch1
    \/ CompleteFetch1
    \/ IssueFetch2
    \/ CompleteFetch2
    \/ PrintDuration
    \/ PrintBlank

Spec == Init /\ [][Next]_vars

\* main runs to its end: no step of it waits for anything but the response
\* of the request in flight, which the service gives
LiveSpec == Init /\ [][Next]_vars /\ WF_vars(Next)

----------------------------------------------------------------------------
(* get_minute_string on its own *)

InitFmt ==
    /\ Idle
    /\ FetchIdle
    /\ seconds \in (0 - MaxSeconds)..MaxSeconds
    /\ result = <<>>
    /\ fmtpc = "call"

CallMinuteString ==
    /\ fmtpc = "call"
    /\ result' = get_minute_string(seconds)
    /\ fmtpc' = "ret"
    /\ UNCHANGED <<seconds, mainvars, fetchvars>>

NextFmt == CallMinuteString

SpecFmt == InitFmt /\ [][NextFmt]_vars

----------------------------------------------------------------------------
(* get_duration on its own *)

InitFetch ==
    /\ Idle
    /\ FmtIdle
    /\ response \in Responses
    /\ duration = NotCalled
    /\ fetchpc = "call"

CallGetDuration ==
    /\ fetchpc = "call"
    /\ duration' = get_duration(response)
    /\ fetchpc' = "ret"
    /\ UNCHANGED <<response, mainvars, fmtvars>>

NextFetch == CallGetDuration

SpecFetch == InitFetch /\ [][NextFetch]_vars

----------------------------------------------------------------------------
(* Reading printed text back *)

IsDigit(c) == \E i \in 1..10 : DigitChars[i] = c

DigitVal(c) == CHOOSE i \in 0..9 : DigitChars[i + 1] = c

RECURSIVE ParseNat(_)
ParseNat(s) ==
    IF s = <<>> THEN 0
    ELSE 10 * ParseNat(SubSeq(s, 1, Len(s) - 1)) + DigitVal(s[Len(s)])

AllDigits(s) == Len(s) >= 1 /\ \A i \in 1..Len(s) : IsDigit(s[i])

\* a decimal numeral without sign and without leading zeros
IsNumeral(s) == AllDigits(s) /\ (Len(s) > 1 => s[1] # "0")

\* s is the decimal of the integer n: "-" and a numeral when n < 0
IsDecimalOf(s, n) ==
    IF n < 0
    THEN Len(s) >= 2 /\ s[1] = "-" /\ IsNumeral(Tail(s)) /\ ParseNat(Tail(s)) = 0 - n
    ELSE IsNumeral(s) /\ ParseNat(s) = n

\* s is n zero-padded to exactly two digits
IsTwoDigitsOf(s, n) == Len(s) = 2 /\ AllDigits(s) /\ ParseNat(s) = n

\* text is a, then ':', then b, with a and b as said
SplitsAtColon(text, IsMinutes(_), IsSeconds(_)) ==
    \E k \in 1..Len(text) :
        /\ text[k] = ":"
        /\ IsMinutes(SubSeq(text, 1, k - 1))
        /\ IsSeconds(SubSeq(text, k + 1, Len(text)))

----------------------------------------------------------------------------
(* The minute formatter *)

\* C1: for every s >= 0, get_minute_string(s) is the decimal of s div 60,
\* then ':', then s mod 60 zero-padded to exactly two digits.
C1_NonNegativeFormat ==
    (fmtpc = "ret" /\ seconds >= 0) =>
        LET IsM(t) == IsDecimalOf(t, seconds \div 60)
            IsS(t) == IsTwoDigitsOf(t, seconds % 60)
        IN  SplitsAtColon(result, IsM, IsS)

C1_Witness ==
    fmtpc = "ret" /\ seconds = 125 /\ result = <<"2", ":", "0", "5">>

\* text is '-', the decimal of q, ':', the decimal of -r without padding
NegativeBranchText(text, q, r) ==
    /\ Len(text) >= 1
    /\ text[1] = "-"
    /\ LET IsM(t) == IsDecimalOf(t, q)
           IsS(t) == IsDecimalOf(t, 0 - r)
       IN  SplitsAtColon(Tail(text), IsM, IsS)

\* text is the decimal of q, ':', r zero-padded to two digits
NonNegativeBranchText(text, q, r) ==
    LET IsM(t) == IsDecimalOf(t, q)
        IsS(t) == IsTwoDigitsOf(t, r)
    IN  SplitsAtColon(text, IsM, IsS)

----------------------------------------------------------------------------
(* The duration fetcher *)

\* the response has a first route with a non-empty legs array whose legs
\* all carry duration_in_traffic.value
WellFormed(resp) ==
    /\ resp.kind = "json"
    /\ Len(resp.routes) >= 1
    /\ resp.routes[1].hasLegs
    /\ Len(resp.routes[1].legs) >= 1
    /\ \A i \in 1..Len(resp.routes[1].legs) : resp.routes[1].legs[i].hasDuration

RECURSIVE SumFrom(_, _)
SumFrom(legs, i) == IF i > Len(legs) THEN 0 ELSE legs[i].value + SumFrom(legs, i + 1)

\* C6: for a well-formed response get_duration returns the sum of
\* duration_in_traffic.value over the legs of routes[0] only.
C6_SumOfFirstRoute ==
    (fetchpc = "ret" /\ WellFormed(response)) =>
        duration.ok /\ duration.value = SumFrom(response.routes[1].legs, 1)

C6_Witness ==
    /\ fetchpc = "ret"
    /\ WellFormed(response)
    /\ Len(response.routes[1].legs) = 2
    /\ Len(response.routes) >= 2
    /\ response.routes[2].hasLegs
    /\ \E i \in 1..Len(response.routes[2].legs) : response.routes[2].legs[i].hasDuration
    /\ duration = Returned(190)

\* C7 as claimed: a response with an empty routes array, or with a first
\* route whose legs array is empty, never gives a duration.
C7_EmptyArrayIsFatal ==
    ( /\ fetchpc = "ret"
      /\ response.kind = "json"
      /\ \/ Len(response.routes) = 0
         \/ (response.routes[1].hasLegs /\ Len(response.routes[1].legs) = 0) )
        => ~duration.ok

----------------------------------------------------------------------------
(* Leg::duration *)

\* C3: every Leg::duration call whose get_duration returned d returns
\* d + (usual_timetable_duration - usual_internal_duration), d being fetched
\* for the leg's origin.internal, destination.internal and via.internal;
\* the loaded legs are never changed.
C3_Calls ==
    /\ \A j \in 1..Len(returns) :
         LET e == returns[j]
             l == profile[e.x + 1]
         IN  /\ requests[j].x = e.x
             /\ requests[j].query.origin = l.origin.internal
             /\ requests[j].query.destination = l.destination.internal
             /\ requests[j].query.waypoints = l.via.internal
             /\ e.raw.ok =>
                  /\ e.ret.ok
                  /\ e.ret.value - l.usual_timetable_duration
                        = e.raw.value - l.usual_internal_duration
    /\ pc # "load" => profile = file.legs

C3_LegDuration == []C3_Calls /\ [][pc # "load" => profile' = profile]_vars

C3_Witness ==
    /\ Len(returns) >= 1
    /\ returns[1].raw = Returned(190)
    /\ returns[1].ret = Returned(210)
    /\ profile[1].usual_timetable_duration = 120
    /\ profile[1].usual_internal_duration = 100

----------------------------------------------------------------------------
(* The report *)

\* line k of the output is what the block of leg (k - 1) div 3 has at its
\* place: the header of that leg, a "Predicted duration" line, a blank line
LineInPlace(k) ==
    LET l == profile[((k - 1) \div 3) + 1]
    IN  CASE k % 3 = 1 ->
               out[k] = <<l.description, ": ", l.origin.description, " -> ",
                          l.destination.description>>
          [] k % 3 = 2 ->
               Len(out[k]) >= 1 /\ out[k][1] = "    Predicted duration: "
          [] OTHER -> out[k] = <<>>

\* the output is the blocks of the first legs of the profile, in profile
\* order, the last of them possibly unfinished
BlocksInOrder ==
    /\ Len(out) <= 3 * Len(profile)
    /\ \A k \in 1..Len(out) : LineInPlace(k)

\* the run aborts only on a failed load or a failed fetch
AbortsOnlyOnFault ==
    pc = "aborted" =>
        \/ file.kind # "ok"
        \/ (Len(returns) >= 1 /\ ~returns[Len(returns)].raw.ok)

\* C4: with N legs and fetches that all succeed the run ends having printed
\* exactly N blocks, one per leg, in profile order, each block complete
\* before the next begins.
C4_Report ==
    /\ [](BlocksInOrder /\ AbortsOnlyOnFault)
    /\ [](pc = "done" => Len(out) = 3 * Len(profile))
    /\ [][Len(out') >= Len(out) /\ SubSeq(out', 1, Len(out)) = out]_vars
    /\ <>(pc = "done" \/ pc = "aborted")

C4_Witness ==
    /\ pc = "done"
    /\ Len(profile) = 2
    /\ profile[1] # profile[2]
    /\ Len(out) = 6

\* C5: a fetch that faults aborts the run there: the faulted call is the
\* last one, its leg has its header and no duration line, nothing of a later
\* leg is fetched or printed, and nothing happens afterwards.
C5_FaultStopsRun ==
    \A j \in 1..Len(returns) :
        ~returns[j].raw.ok =>
            /\ pc = "aborted"
            /\ j = Len(returns)
            /\ Len(requests) = j
            /\ requests[j].x = returns[j].x
            /\ Len(out) = 3 * returns[j].x + 1

C5_FaultAborts ==
    /\ []C5_FaultStopsRun
    /\ [][pc = "aborted" => (pc' = pc /\ out' = out /\ requests' = requests
                               /\ returns' = returns)]_vars

C5_Witness ==
    /\ pc = "aborted"
    /\ Len(profile) = 2
    /\ Len(returns) = 1
    /\ returns[1].raw = Panic("duration_in_traffic")
    /\ Len(out) = 1

\* the values Leg::duration can return in the model
PredictedValues ==
    {o.value + (l.usual_timetable_duration - l.usual_internal_duration) :
        o \in {r \in Outcomes : r.ok}, l \in ProfileLegs}

\* C8 as claimed: in every printed duration line the deviation shown is the
\* predicted duration shown minus the leg's usual_timetable_duration.
C8_DeviationMatchesPredicted ==
    \A i \in 1..Len(profile) :
        Len(out) >= 3 * i - 1 =>
            \E p \in PredictedValues :
                out[3 * i - 1] =
                    <<"    Predicted duration: ">> \o get_minute_string(p)
                        \o <<" min (deviation ">>
                        \o get_minute_string(p - profile[i].usual_timetable_duration)
                        \o <<" min)">>

\* C9: two fetches per leg and 2N in all, one request at a time, both
\* fetches of a leg complete before the next leg's first is issued, and a
\* printed line shows the results of its own two fetches.
C9_TwoPerLeg ==
    /\ Len(requests) - Len(returns) \in {0, 1}
    /\ \A j \in 1..Len(requests) :
         /\ requests[j].x = (j - 1) \div 2
         /\ requests[j].query.origin = profile[requests[j].x + 1].origin.internal
    /\ \A j \in 1..Len(returns) : returns[j].x = (j - 1) \div 2
    /\ pc = "done" =>
         /\ Len(requests) = 2 * Len(profile)
         /\ Len(returns) = 2 * Len(profile)
    /\ \A i \in 1..Len(profile) :
         Len(out) >= 3 * i - 1 =>
            /\ Len(returns) >= 2 * i
            /\ out[3 * i - 1] =
                 <<"    Predicted duration: ">>
                    \o get_minute_string(returns[2 * i - 1].ret.value)
                    \o <<" min (deviation ">>
                    \o get_minute_string(returns[2 * i].ret.value
                                            - profile[i].usual_timetable_duration)
                    \o <<" min)">>

C9_Fetches ==
    /\ []C9_TwoPerLeg
    /\ [][Len(requests') # Len(requests) =>
             (Len(returns) = Len(requests) /\ Len(requests') = Len(requests) + 1)]_vars

C9_Witness ==
    /\ pc = "done"
    /\ Len(profile) = 2
    /\ Len(requests) = 4
    /\ returns[3].ret.value # returns[4].ret.value

\* C10: when a fetch for leg k faults, the output is the complete blocks of
\* legs 0..k-1 and the header of leg k, whichever of the two fetches
\* faulted; when the load fails nothing is fetched and nothing printed.
C10_OutputAtAbort ==
    /\ file.kind # "ok" => (out = <<>> /\ requests = <<>> /\ pc \in {"load", "aborted"})
    /\ (pc = "aborted" /\ file.kind = "ok") =>
         /\ Len(returns) \in {2 * x + 1, 2 * x + 2}
         /\ ~returns[Len(returns)].raw.ok
         /\ Len(out) = 3 * x + 1
         /\ out[3 * x + 1] =
              <<profile[x + 1].description, ": ", profile[x + 1].origin.description,
                " -> ", profile[x + 1].destination.description>>
         /\ \A i \in 1..x :
              /\ out[3 * i - 2] =
                   <<profile[i].description, ": ", profile[i].origin.description,
                     " -> ", profile[i].destination.description>>
              /\ Len(out[3 * i - 1]) >= 1
              /\ out[3 * i - 1][1] = "    Predicted duration: "
              /\ out[3 * i - 1][Len(out[3 * i - 1])] = " min)"
              /\ out[3 * i] = <<>>

C10_Witness ==
    /\ pc = "aborted"
    /\ x = 1
    /\ Len(returns) = 4
    /\ returns[3].raw.ok
    /\ Len(out) = 4

====
